---- MODULE Spec2Model ----
(***************************************************************************)
(* LIN slave protocol engine (LIN_Slave_Base) of LIN_slave_portable.       *)
(* The engine is the byte-driven state machine of LIN_Slave_Base::handler, *)
(* the protected-ID and checksum computations, the 64-slot callback table  *)
(* and the latched error mask.  The byte source (receive queue, break      *)
(* flag, transmit-enable pin) is the engine's environment.                 *)
(***************************************************************************)
EXTENDS Integers, Sequences, FiniteSets, TLC

(***************************************************************************)
(* Enumerations of LIN_slave_Base.h                                        *)
(***************************************************************************)
LIN_V1 == 1
LIN_V2 == 2

MASTER_REQUEST == 16
SLAVE_RESPONSE == 32

STATE_OFF == 1
STATE_WAIT_FOR_BREAK == 2
STATE_WAIT_FOR_SYNC == 4
STATE_WAIT_FOR_PID == 8
STATE_RECEIVING_DATA == 16
STATE_RECEIVING_ECHO == 32
STATE_WAIT_FOR_CHK == 64
STATE_DONE == 128

NO_ERROR == 0
ERROR_STATE == 1
ERROR_ECHO == 2
ERROR_TIMEOUT == 4
ERROR_CHK == 8
ERROR_SYNC == 16
ERROR_PID == 32
ERROR_MISC == 128

\* the null callback reference
nullptr == "nullptr"

\* the classes of the object: LIN_Slave_NeoHWSerial_AVR inherits the base
\* handler(), the generic HardwareSerial and SoftwareSerial classes override
\* it; SoftwareSerial_ESP is the SoftwareSerial class built for ESP32/ESP8266
NeoHWSerial_AVR == "NeoHWSerial_AVR"
HardwareSerial == "HardwareSerial"
SoftwareSerial == "SoftwareSerial"
SoftwareSerial_ESP == "SoftwareSerial_ESP"

\* bufData[9]: at most 8 data bytes and the checksum
BufLen == 9

\* callback[64]
NumSlots == 64

(***************************************************************************)
(* C integer operators on unsigned values                                  *)
(***************************************************************************)
RECURSIVE BitAnd(_, _)
BitAnd(a, b) ==
  IF a = 0 \/ b = 0 THEN 0
  ELSE (a % 2) * (b % 2) + 2 * BitAnd(a \div 2, b \div 2)

RECURSIVE BitOr(_, _)
BitOr(a, b) ==
  IF a = 0 THEN b
  ELSE IF b = 0 THEN a
  ELSE (IF (a % 2) + (b % 2) > 0 THEN 1 ELSE 0) + 2 * BitOr(a \div 2, b \div 2)

RECURSIVE BitXor(_, _)
BitXor(a, b) ==
  IF a = 0 THEN b
  ELSE IF b = 0 THEN a
  ELSE ((a + b) % 2) + 2 * BitXor(a \div 2, b \div 2)

\* ~x evaluated in int (16 bits on AVR)
BitNot(x) == 65535 - (x % 65536)

\* (uint8_t) x
U8(x) == x % 256

\* (uint16_t) x
U16(x) == x % 65536

(***************************************************************************)
(* Bounds of the model                                                     *)
(***************************************************************************)
\* receive timeout, in ticks of the model's clock
TimeoutRx == 2

\* capacity of the byte source's receive queue
MaxQueue == 1

\* number of BREAKs the bus master raises in a run
MaxBreaks == 2

\* number of recomputations of a pure function in the calculation specs
MaxApply == 2

\* calls of the consumer's operations other than handler() in one run
MaxOps == 1

\* minFramePause of the HALs that detect a BREAK by the inter-frame pause,
\* in ticks of the model's clock
MinFramePause == 1

(***************************************************************************)
(* Input alphabets                                                         *)
(***************************************************************************)
\* data byte values on the bus and produced by slave-response callbacks
DataVals == {1, 255}

VARIABLES
  version,      \* LIN protocol version
  state,        \* status of LIN state machine
  error,        \* error state, latched
  flagBreak,    \* flag for BREAK detected
  callback,     \* array of user callbacks for IDs 0x00..0x3F
  pid,          \* protected frame identifier
  id,           \* unprotected frame identifier
  type,         \* frame type
  numData,      \* number of data bytes in frame
  bufData,      \* buffer for data bytes + checksum, index 0..8
  idxData,      \* current index in bufData
  elapsed,      \* micros() - timeLastRx, capped
  txEN,         \* level of the transmit-enable pin
  rxq,          \* bytes received and not yet read
  hist,         \* observer: bytes handled in a frame state since the last BREAK
  calls,        \* observer: callback invocations since the last BREAK
  sent,         \* observer: _serialWrite calls since the last BREAK
  frameErr,     \* observer: error bits latched since the last BREAK
  snap,         \* observer: what getFrame() returned, if it was the last call
  breaks,       \* bus master: number of BREAKs raised so far
  bus,          \* bus master: bytes sent since its last BREAK
  ops,          \* consumer: calls of operations other than handler() so far
  fnArg,        \* calculation specs: the inputs drawn
  fnRes,        \* calculation specs: the results so far
  hal,          \* the class of the object: which handler() override it has
  pause,        \* micros() - usLastByte of the HAL handler overrides, capped
  pc            \* where handler() stands, when its steps are taken one by one

vars == <<version, state, error, flagBreak, callback, pid, id, type, numData,
          bufData, idxData, elapsed, txEN, rxq, hist, calls, sent, frameErr,
          snap, breaks, bus, ops, fnArg, fnRes, hal, pause, pc>>

(***************************************************************************)
(* Protected ID and checksum                                               *)
(***************************************************************************)
\* variant of _calculatePID whose second parity bit is not inverted
_calculatePIDPlainParity(ID) ==
  LET pid0 == U8(BitAnd(ID, 63))
      tmp0 == U8(BitAnd(BitXor(BitXor(BitXor(pid0, pid0 \div 2), pid0 \div 4),
                               pid0 \div 16), 1))
      pid1 == BitOr(pid0, U8(tmp0 * 64))
      tmp1 == U8(BitAnd(BitXor(BitXor(BitXor(pid1 \div 2, pid1 \div 8),
                                      pid1 \div 16), pid1 \div 32), 1))
  IN  BitOr(pid1, U8(tmp1 * 128))

\* variant that adds the parity bits to the ID it was given, without
\* clearing bits 6 and 7 first
_calculatePIDAddingParity(ID) ==
  LET pid0 == U8(ID)
      tmp0 == U8(BitAnd(BitXor(BitXor(BitXor(pid0, pid0 \div 2), pid0 \div 4),
                               pid0 \div 16), 1))
      pid1 == U8(pid0 + U8(tmp0 * 64))
      tmp1 == U8(BitAnd(BitNot(BitXor(BitXor(BitXor(pid1 \div 2, pid1 \div 8),
                                             pid1 \div 16), pid1 \div 32)), 1))
  IN  U8(pid1 + U8(tmp1 * 128))

\* LIN_Slave_Base::_calculatePID
_calculatePID(ID) ==
  LET pid0 == U8(BitAnd(ID, 63))
      tmp0 == U8(BitAnd(BitXor(BitXor(BitXor(pid0, pid0 \div 2), pid0 \div 4),
                               pid0 \div 16), 1))
      pid1 == BitOr(pid0, U8(tmp0 * 64))
      tmp1 == U8(BitAnd(BitNot(BitXor(BitXor(BitXor(pid1 \div 2, pid1 \div 8),
                                             pid1 \div 16), pid1 \div 32)), 1))
  IN  BitOr(pid1, U8(tmp1 * 128))

\* variant of the start value that tests the protected ID against 0x3D
ChecksumSeedPlainId(ver, p) ==
  IF ~((ver = LIN_V1) \/ (p = 60) \/ (p = 61)) THEN U16(p) ELSE 0

\* the accumulator's start value: the protected ID for the extended checksum
ChecksumSeed(ver, p) ==
  IF ~((ver = LIN_V1) \/ (p = 60) \/ (p = 125)) THEN U16(p) ELSE 0

\* variant of the add-and-fold step that drops the carry
ChecksumAddNoCarry(chk, byte) ==
  LET c == U16(chk + byte)
  IN  IF c > 255 THEN U16(c - 256) ELSE c

\* one pass of the loop over the data bytes: add and fold
ChecksumAdd(chk, byte) ==
  LET c == U16(chk + byte)
  IN  IF c > 255 THEN U16(c - 255) ELSE c

\* the loop over Data[i .. NumData-1], Data indexed from 0
RECURSIVE ChecksumLoop(_, _, _, _)
ChecksumLoop(chk, i, NumData, Data) ==
  IF i < NumData
    THEN ChecksumLoop(ChecksumAdd(chk, Data[i]), i + 1, NumData, Data)
    ELSE chk

\* chk = (uint8_t)(0xFF - ((uint8_t) chk))
ChecksumInvert(chk) == U8(255 - U8(chk))

\* LIN_Slave_Base::_calculateChecksum, reading this->version and this->pid
_calculateChecksum(ver, p, NumData, Data) ==
  ChecksumInvert(ChecksumLoop(ChecksumSeed(ver, p), 0, NumData, Data))

(***************************************************************************)
(* The engine object as a record, for the steps of handler()               *)
(***************************************************************************)
Obj ==
  [state |-> state, error |-> error, flagBreak |-> flagBreak, pid |-> pid,
   id |-> id, type |-> type, numData |-> numData, bufData |-> bufData,
   idxData |-> idxData, elapsed |-> elapsed, txEN |-> txEN, rxq |-> rxq,
   hist |-> hist, calls |-> calls, sent |-> sent, frameErr |-> frameErr]

\* variant of the latch that replaces the error mask
LatchReplacing(s, bit) ==
  [s EXCEPT !.error = bit, !.frameErr = BitOr(@, bit)]

\* this->error = (error_t) ((int) this->error | (int) bit)
Latch(s, bit) ==
  [s EXCEPT !.error = BitOr(@, bit), !.frameErr = BitOr(@, bit)]

\* _disableTransmitter() with a TxEN pin configured
DisableTransmitter(s) == [s EXCEPT !.txEN = FALSE]

\* _enableTransmitter() with a TxEN pin configured
EnableTransmitter(s) == [s EXCEPT !.txEN = TRUE]

\* the first n bytes of a buffer, as a sequence
Prefix(buf, n) == [k \in 1..n |-> buf[k - 1]]

\* the condition of the receive-timeout check
TimeoutCondition(s) ==
  (BitOr(s.state, BitOr(STATE_OFF, BitOr(STATE_WAIT_FOR_BREAK, STATE_DONE))) = 0)
    /\ (s.elapsed > TimeoutRx)

\* handler(): on receive timeout within frame reset state machine
TimeoutCheck(s) ==
  IF TimeoutCondition(s)
    THEN DisableTransmitter(
           [Latch(s, ERROR_TIMEOUT) EXCEPT !.state = STATE_DONE, !.rxq = <<>>])
    ELSE s

\* variant of the BREAK check that starts a frame only between frames
BreakCheckBetweenFrames(s) ==
  IF s.flagBreak = TRUE
    THEN IF s.state \in {STATE_DONE, STATE_WAIT_FOR_BREAK}
           THEN DisableTransmitter(
                  [s EXCEPT !.flagBreak = FALSE, !.state = STATE_WAIT_FOR_SYNC,
                            !.hist = <<>>, !.calls = <<>>, !.sent = <<>>,
                            !.frameErr = NO_ERROR])
           ELSE [s EXCEPT !.flagBreak = FALSE]
    ELSE s

\* handler(): detected LIN BREAK
BreakCheck(s) ==
  IF s.flagBreak = TRUE
    THEN DisableTransmitter(
           [s EXCEPT !.flagBreak = FALSE, !.state = STATE_WAIT_FOR_SYNC,
                     !.hist = <<>>, !.calls = <<>>, !.sent = <<>>,
                     !.frameErr = NO_ERROR])
    ELSE s

\* variant of the SYNC case that latches the error and keeps waiting
OnSyncStaying(s, byteReceived) ==
  LET s1 == [s EXCEPT !.hist = Append(@, byteReceived)]
  IN  IF byteReceived = 85
        THEN [s1 EXCEPT !.idxData = 0, !.state = STATE_WAIT_FOR_PID]
        ELSE DisableTransmitter(Latch(s1, ERROR_SYNC))

\* variant of the SYNC case that keeps the fill index of the previous frame
OnSyncKeepingIndex(s, byteReceived) ==
  LET s1 == [s EXCEPT !.hist = Append(@, byteReceived)]
  IN  IF byteReceived = 85
        THEN [s1 EXCEPT !.state = STATE_WAIT_FOR_PID]
        ELSE DisableTransmitter(
               [Latch(s1, ERROR_SYNC) EXCEPT !.state = STATE_DONE])

\* variant of the SYNC case that compares the low seven bits only
OnSyncSevenBits(s, byteReceived) ==
  LET s1 == [s EXCEPT !.hist = Append(@, byteReceived)]
  IN  IF byteReceived % 128 = 85
        THEN [s1 EXCEPT !.idxData = 0, !.state = STATE_WAIT_FOR_PID]
        ELSE DisableTransmitter(
               [Latch(s1, ERROR_SYNC) EXCEPT !.state = STATE_DONE])

\* case STATE_WAIT_FOR_SYNC
OnSync(s, byteReceived) ==
  LET s1 == [s EXCEPT !.hist = Append(@, byteReceived)]
  IN  IF byteReceived = 85
        THEN [s1 EXCEPT !.idxData = 0, !.state = STATE_WAIT_FOR_PID]
        ELSE DisableTransmitter(
               [Latch(s1, ERROR_SYNC) EXCEPT !.state = STATE_DONE])

\* variant of the slave response that sends the data without the checksum
OnPidSlaveResponseNoChecksum(s, d) ==
  LET tn == callback[s.id].type_numData
      n  == BitAnd(tn, 15)
      s1 == [s EXCEPT !.type = BitAnd(tn, 240), !.numData = n]
      s2 == [s1 EXCEPT
               !.calls = Append(@, [id |-> s.id, fct |-> callback[s.id].fct,
                                    numData |-> n, data |-> d]),
               !.bufData = [i \in 0..(BufLen - 1) |->
                              IF i < n THEN d[i + 1] ELSE s1.bufData[i]]]
      s3 == [s2 EXCEPT
               !.bufData[n] = _calculateChecksum(version, s2.pid, n, s2.bufData)]
      s4 == EnableTransmitter(s3)
      s5 == [s4 EXCEPT
               !.sent = Append(@, [bytes |-> Prefix(s4.bufData, n),
                                   txEN |-> s4.txEN])]
  IN  [s5 EXCEPT !.state = STATE_RECEIVING_ECHO]

\* case STATE_WAIT_FOR_PID, slave response: d is what the callback writes
OnPidSlaveResponse(s, d) ==
  LET tn == callback[s.id].type_numData
      n  == BitAnd(tn, 15)
      s1 == [s EXCEPT !.type = BitAnd(tn, 240), !.numData = n]
      s2 == [s1 EXCEPT
               !.calls = Append(@, [id |-> s.id, fct |-> callback[s.id].fct,
                                    numData |-> n, data |-> d]),
               !.bufData = [i \in 0..(BufLen - 1) |->
                              IF i < n THEN d[i + 1] ELSE s1.bufData[i]]]
      s3 == [s2 EXCEPT
               !.bufData[n] = _calculateChecksum(version, s2.pid, n, s2.bufData)]
      s4 == EnableTransmitter(s3)
      s5 == [s4 EXCEPT
               !.sent = Append(@, [bytes |-> Prefix(s4.bufData, n + 1),
                                   txEN |-> s4.txEN])]
  IN  [s5 EXCEPT !.state = STATE_RECEIVING_ECHO]

\* variant of the master request that takes the whole byte of the slot,
\* kind included, as the length
OnPidMasterRequestWholeByte(s) ==
  LET tn == callback[s.id].type_numData
  IN  [s EXCEPT !.type = BitAnd(tn, 240), !.numData = tn,
                !.state = STATE_RECEIVING_DATA]

\* case STATE_WAIT_FOR_PID, master request
OnPidMasterRequest(s) ==
  LET tn == callback[s.id].type_numData
  IN  [s EXCEPT !.type = BitAnd(tn, 240), !.numData = BitAnd(tn, 15),
                !.state = STATE_RECEIVING_DATA]

\* variant of the PID case that treats an unregistered ID as an error
OnPidStrict(s, byteReceived, d) ==
  LET s1 == [s EXCEPT !.hist = Append(@, byteReceived),
                      !.pid = byteReceived, !.id = BitAnd(byteReceived, 63)]
      slot == callback[s1.id]
  IN  IF s1.pid # _calculatePID(s1.id)
        THEN DisableTransmitter(
               [Latch(s1, ERROR_PID) EXCEPT !.state = STATE_DONE])
      ELSE IF slot.fct # nullptr /\ BitAnd(slot.type_numData, SLAVE_RESPONSE) # 0
        THEN OnPidSlaveResponse(s1, d)
      ELSE IF slot.fct # nullptr /\ BitAnd(slot.type_numData, MASTER_REQUEST) # 0
        THEN OnPidMasterRequest(s1)
      ELSE DisableTransmitter(
             [Latch(s1, ERROR_PID) EXCEPT !.state = STATE_DONE])

\* variant of the PID case that answers every registered ID as a slave
\* response
OnPidAnsweringRequests(s, byteReceived, d) ==
  LET s1 == [s EXCEPT !.hist = Append(@, byteReceived),
                      !.pid = byteReceived, !.id = BitAnd(byteReceived, 63)]
      slot == callback[s1.id]
  IN  IF s1.pid # _calculatePID(s1.id)
        THEN DisableTransmitter(
               [Latch(s1, ERROR_PID) EXCEPT !.state = STATE_DONE])
      ELSE IF slot.fct # nullptr
        THEN OnPidSlaveResponse(s1, d)
      ELSE [s1 EXCEPT !.state = STATE_WAIT_FOR_BREAK]

\* variant of the PID case that checks the parity bits only when no handler
\* is registered for the ID
OnPidParityOfUnregistered(s, byteReceived, d) ==
  LET s1 == [s EXCEPT !.hist = Append(@, byteReceived),
                      !.pid = byteReceived, !.id = BitAnd(byteReceived, 63)]
      slot == callback[s1.id]
  IN  IF slot.fct # nullptr /\ BitAnd(slot.type_numData, SLAVE_RESPONSE) # 0
        THEN OnPidSlaveResponse(s1, d)
      ELSE IF slot.fct # nullptr /\ BitAnd(slot.type_numData, MASTER_REQUEST) # 0
        THEN OnPidMasterRequest(s1)
      ELSE IF s1.pid # _calculatePID(s1.id)
        THEN DisableTransmitter(
               [Latch(s1, ERROR_PID) EXCEPT !.state = STATE_DONE])
      ELSE [s1 EXCEPT !.state = STATE_WAIT_FOR_BREAK]

\* case STATE_WAIT_FOR_PID
OnPid(s, byteReceived, d) ==
  LET s1 == [s EXCEPT !.hist = Append(@, byteReceived),
                      !.pid = byteReceived, !.id = BitAnd(byteReceived, 63)]
      slot == callback[s1.id]
  IN  IF s1.pid # _calculatePID(s1.id)
        THEN DisableTransmitter(
               [Latch(s1, ERROR_PID) EXCEPT !.state = STATE_DONE])
      ELSE IF slot.fct # nullptr /\ BitAnd(slot.type_numData, SLAVE_RESPONSE) # 0
        THEN OnPidSlaveResponse(s1, d)
      ELSE IF slot.fct # nullptr /\ BitAnd(slot.type_numData, MASTER_REQUEST) # 0
        THEN OnPidMasterRequest(s1)
      ELSE [s1 EXCEPT !.state = STATE_WAIT_FOR_BREAK]

\* case STATE_RECEIVING_DATA
OnData(s, byteReceived) ==
  LET s1 == [s EXCEPT !.hist = Append(@, byteReceived),
                      !.bufData[s.idxData] = byteReceived,
                      !.idxData = U8(s.idxData + 1)]
  IN  IF s1.idxData >= s1.numData
        THEN [s1 EXCEPT !.state = STATE_WAIT_FOR_CHK]
        ELSE s1

\* variant of the echo case that does not wait for the echo of the checksum
OnEchoWithoutChecksum(s, byteReceived) ==
  LET s1 == [s EXCEPT !.hist = Append(@, byteReceived),
                      !.idxData = U8(s.idxData + 1)]
  IN  IF s.bufData[s.idxData] # byteReceived
        THEN DisableTransmitter(
               [Latch(s1, ERROR_ECHO) EXCEPT !.state = STATE_DONE])
      ELSE IF s1.idxData >= s1.numData
        THEN DisableTransmitter([s1 EXCEPT !.state = STATE_DONE])
      ELSE s1

\* case STATE_RECEIVING_ECHO
\* variant of the echo case that hands the completed echo to the callback,
\* as the checksum case does with a master request
OnEchoDelivered(s, byteReceived) ==
  LET s1 == [s EXCEPT !.hist = Append(@, byteReceived),
                      !.idxData = U8(s.idxData + 1)]
  IN  IF s.bufData[s.idxData] # byteReceived
        THEN DisableTransmitter(
               [Latch(s1, ERROR_ECHO) EXCEPT !.state = STATE_DONE])
      ELSE IF s1.idxData >= s1.numData + 1
        THEN DisableTransmitter(
               [s1 EXCEPT !.state = STATE_DONE,
                          !.calls = Append(@, [id |-> s1.id,
                                               fct |-> callback[s1.id].fct,
                                               numData |-> s1.numData,
                                               data |-> Prefix(s1.bufData,
                                                               s1.numData)])])
      ELSE s1

OnEcho(s, byteReceived) ==
  LET s1 == [s EXCEPT !.hist = Append(@, byteReceived),
                      !.idxData = U8(s.idxData + 1)]
  IN  IF s.bufData[s.idxData] # byteReceived
        THEN DisableTransmitter(
               [Latch(s1, ERROR_ECHO) EXCEPT !.state = STATE_DONE])
      ELSE IF s1.idxData >= s1.numData + 1
        THEN DisableTransmitter([s1 EXCEPT !.state = STATE_DONE])
      ELSE s1

\* variant of the checksum case that calls the callback whatever was received
OnChkCallbackAnyway(s, byteReceived) ==
  LET s1 == [s EXCEPT !.hist = Append(@, byteReceived)]
      chk_calc == _calculateChecksum(version, s1.pid, s1.numData, s1.bufData)
      s2 == [s1 EXCEPT
               !.calls = Append(@, [id |-> s1.id,
                                    fct |-> callback[s1.id].fct,
                                    numData |-> s1.numData,
                                    data |-> Prefix(s1.bufData, s1.numData)])]
      s3 == IF byteReceived = chk_calc THEN s2 ELSE Latch(s2, ERROR_CHK)
  IN  DisableTransmitter([s3 EXCEPT !.state = STATE_DONE])

\* case STATE_WAIT_FOR_CHK
OnChk(s, byteReceived) ==
  LET s1 == [s EXCEPT !.hist = Append(@, byteReceived)]
      chk_calc == _calculateChecksum(version, s1.pid, s1.numData, s1.bufData)
      s2 == IF byteReceived = chk_calc
              THEN [s1 EXCEPT
                      !.calls = Append(@, [id |-> s1.id,
                                           fct |-> callback[s1.id].fct,
                                           numData |-> s1.numData,
                                           data |-> Prefix(s1.bufData, s1.numData)])]
              ELSE Latch(s1, ERROR_CHK)
  IN  DisableTransmitter([s2 EXCEPT !.state = STATE_DONE])

\* default: illegal state
OnIllegalState(s) ==
  DisableTransmitter([Latch(s, ERROR_STATE) EXCEPT !.state = STATE_DONE])

\* variant of the switch that takes a byte read in Done as the SYNC byte of
\* a new frame
HandleByteSyncInDone(s, byteReceived, d) ==
  CASE s.state = STATE_OFF -> s
    [] s.state = STATE_WAIT_FOR_BREAK -> s
    [] s.state = STATE_DONE -> OnSync(s, byteReceived)
    [] s.state = STATE_WAIT_FOR_SYNC -> OnSync(s, byteReceived)
    [] s.state = STATE_WAIT_FOR_PID -> OnPid(s, byteReceived, d)
    [] s.state = STATE_RECEIVING_DATA -> OnData(s, byteReceived)
    [] s.state = STATE_RECEIVING_ECHO -> OnEcho(s, byteReceived)
    [] s.state = STATE_WAIT_FOR_CHK -> OnChk(s, byteReceived)
    [] OTHER -> OnIllegalState(s)

\* switch (this->state)
\* variant of the switch without a case for Done, which then falls into the
\* default branch
HandleByteDoneUnlisted(s, byteReceived, d) ==
  CASE s.state = STATE_OFF -> s
    [] s.state = STATE_WAIT_FOR_BREAK -> s
    [] s.state = STATE_WAIT_FOR_SYNC -> OnSync(s, byteReceived)
    [] s.state = STATE_WAIT_FOR_PID -> OnPid(s, byteReceived, d)
    [] s.state = STATE_RECEIVING_DATA -> OnData(s, byteReceived)
    [] s.state = STATE_RECEIVING_ECHO -> OnEcho(s, byteReceived)
    [] s.state = STATE_WAIT_FOR_CHK -> OnChk(s, byteReceived)
    [] OTHER -> OnIllegalState(s)

HandleByte(s, byteReceived, d) ==
  CASE s.state = STATE_OFF -> s
    [] s.state = STATE_WAIT_FOR_BREAK -> s
    [] s.state = STATE_DONE -> s
    [] s.state = STATE_WAIT_FOR_SYNC -> OnSync(s, byteReceived)
    [] s.state = STATE_WAIT_FOR_PID -> OnPid(s, byteReceived, d)
    [] s.state = STATE_RECEIVING_DATA -> OnData(s, byteReceived)
    [] s.state = STATE_RECEIVING_ECHO -> OnEcho(s, byteReceived)
    [] s.state = STATE_WAIT_FOR_CHK -> OnChk(s, byteReceived)
    [] OTHER -> OnIllegalState(s)

\* handler(): a byte was received -> handle it
ByteCheck(s, d) ==
  IF s.rxq # <<>>
    THEN HandleByte([s EXCEPT !.rxq = Tail(@), !.elapsed = 0], Head(s.rxq), d)
    ELSE s

\* the indexes at which handling the byte reads or writes bufData: the data
\* byte stored, the echo byte compared, the bytes summed for the checksum
\* and handed to the callback, the checksum attached to a response and the
\* bytes sent
BufferIndexes(s, byteReceived) ==
  LET slot == callback[BitAnd(byteReceived, 63)]
      n    == BitAnd(slot.type_numData, 15)
  IN  IF s.state \in {STATE_RECEIVING_DATA, STATE_RECEIVING_ECHO}
        THEN {s.idxData}
      ELSE IF s.state = STATE_WAIT_FOR_CHK
        THEN 0..(s.numData - 1)
      ELSE IF /\ s.state = STATE_WAIT_FOR_PID
              /\ byteReceived = _calculatePID(BitAnd(byteReceived, 63))
              /\ slot.fct # nullptr
              /\ BitAnd(slot.type_numData, SLAVE_RESPONSE) # 0
        THEN 0..n
      ELSE {}

\* the indexes at which handling the byte reads callback[]
TableIndexes(s, byteReceived) ==
  IF s.state = STATE_WAIT_FOR_PID
    THEN {BitAnd(byteReceived, 63)}
  ELSE IF s.state = STATE_WAIT_FOR_CHK
    THEN {s.id}
  ELSE {}

\* LIN_Slave_Base::handler as a function of the object and of what a
\* slave-response callback writes
HandlerResult(s, d) == ByteCheck(BreakCheck(TimeoutCheck(s)), d)

(***************************************************************************)
(* Reference definitions of the LIN wire format, used to generate the      *)
(* master's bytes and to state the properties                              *)
(***************************************************************************)
\* bit k of x
Bit(x, k) == (x \div (2 ^ k)) % 2

\* exclusive or of a set of bits given as a sequence
RECURSIVE Parity(_)
Parity(bits) ==
  IF bits = <<>> THEN 0 ELSE (Head(bits) + Parity(Tail(bits))) % 2

\* 8-bit addition with end-around carry (one's-complement addition)
RefAdd8(a, b) == ((a + b) % 256) + ((a + b) \div 256)

\* one's-complement sum of a seed and a sequence of bytes
RECURSIVE RefSum(_, _)
RefSum(seed, bytes) ==
  IF bytes = <<>> THEN seed
  ELSE RefSum(RefAdd8(seed, Head(bytes)), Tail(bytes))

\* LIN checksum of the bytes with the given seed
LinChecksum(seed, bytes) == 255 - RefSum(seed, bytes)

\* classical checksum (seed 0) for LIN 1.x and the diagnostic IDs 0x3C and
\* 0x3D, enhanced checksum (seed = protected ID) otherwise
RefSeed(ver, protectedId) ==
  IF ver = LIN_V1 \/ (protectedId % 64) \in {60, 61} THEN 0 ELSE protectedId

\* a byte sequence as a 9-byte buffer, zero-padded
AsBuffer(bytes) ==
  [i \in 0..(BufLen - 1) |-> IF i < Len(bytes) THEN bytes[i + 1] ELSE 0]

(***************************************************************************)
(* The bus master and the byte source                                      *)
(***************************************************************************)
\* candidates for the SYNC byte: 0x55 and a wrong one
SyncVals == {85, 0}

\* candidates for the protected ID: 0x50 = PID of 0x10, 0x7D = PID of 0x3D,
\* and 0x10 = ID 0x10 with wrong parity
PidVals == {80, 125, 16}

\* candidates for the checksum byte: the right one and the next value
ChkVals ==
  IF Len(bus) >= 2
    THEN LET c == LinChecksum(RefSeed(version, bus[2]),
                              SubSeq(bus, 3, Len(bus)))
         IN  {c, (c + 1) % 256}
    ELSE {}

\* the master has sent the checksum byte of its frame
Closed ==
  /\ Len(bus) >= 3
  /\ LET body == SubSeq(bus, 1, Len(bus) - 1)
         c == LinChecksum(RefSeed(version, body[2]), SubSeq(body, 3, Len(body)))
     IN  bus[Len(bus)] \in {c, (c + 1) % 256}

\* the longest frame length in the node's table
LongestRegistered ==
  LET lens == {callback[i].type_numData % 16 : i \in 0..(NumSlots - 1)}
  IN  CHOOSE m \in lens : \A l \in lens : l <= m

\* the master's schedule: frames carry at most as many data bytes as the
\* longest frame of the node, and never more than eight
ScheduleLen ==
  IF LongestRegistered < BufLen - 1 THEN LongestRegistered ELSE BufLen - 1

\* the byte values that may appear on the bus next: a SYNC candidate, a PID
\* candidate, then data bytes counting up from a start value, then a
\* checksum candidate, and nothing after it
Offered ==
  IF Len(bus) = 0 THEN SyncVals
  ELSE IF Len(bus) = 1 THEN PidVals
  ELSE IF Closed THEN {}
  ELSE IF Len(bus) >= 2 + ScheduleLen THEN ChkVals
  ELSE IF Len(bus) = 2 THEN DataVals \cup ChkVals
  ELSE {(bus[Len(bus)] + 1) % 256} \cup ChkVals

\* sequences of n data bytes counting up from a start value
Vectors(n) == {[k \in 1..n |-> (d0 + k - 1) % 256] : d0 \in DataVals}

\* what the slave-response callback addressed by the next byte may write
CallbackOutputs ==
  IF rxq # <<>>
    THEN Vectors(BitAnd(callback[BitAnd(Head(rxq), 63)].type_numData, 15))
    ELSE {<<>>}

\* handler() has called through a null callback reference: the behaviour of
\* the program is undefined from there on, and the model follows it no
\* further
NullCalled == \E k \in 1..Len(calls) : calls[k].fct = nullptr

\* no getFrame() result
NoSnap == <<>>

\* the result of the calculation specs before a function is applied
NoRes == <<>>

(***************************************************************************)
(* Actions                                                                 *)
(***************************************************************************)
\* the object after a step of handler()
Commit(r) ==
  /\ state' = r.state
  /\ error' = r.error
  /\ flagBreak' = r.flagBreak
  /\ pid' = r.pid
  /\ id' = r.id
  /\ type' = r.type
  /\ numData' = r.numData
  /\ bufData' = r.bufData
  /\ idxData' = r.idxData
  /\ elapsed' = r.elapsed
  /\ txEN' = r.txEN
  /\ rxq' = r.rxq
  /\ hist' = r.hist
  /\ calls' = r.calls
  /\ sent' = r.sent
  /\ frameErr' = r.frameErr

\* LIN_Slave_Base::handler, called on an object whose class does not override
\* it
handler ==
  /\ ~NullCalled
  /\ hal = NeoHWSerial_AVR
  /\ \E d \in CallbackOutputs : Commit(HandlerResult(Obj, d))
  /\ snap' = NoSnap
  /\ UNCHANGED <<version, callback, breaks, bus, ops, fnArg, fnRes, hal, pause, pc>>

\* room in the receive queue: the HALs that store the BREAK as a byte 0x00
\* have one place more for it
QueueCap ==
  IF hal \in {HardwareSerial, SoftwareSerial} THEN MaxQueue + 1 ELSE MaxQueue

\* the byte source stores a received byte
Receive ==
  /\ ~NullCalled
  /\ Len(rxq) < QueueCap
  /\ \E b \in Offered : rxq' = Append(rxq, b) /\ bus' = Append(bus, b)
  /\ snap' = NoSnap
  /\ UNCHANGED <<version, state, error, flagBreak, callback, pid, id, type,
                 numData, bufData, idxData, elapsed, txEN, hist, calls, sent,
                 frameErr, breaks, ops, fnArg, fnRes, hal, pause, pc>>

\* LIN_Slave_HardwareSerial::handler as a function of the object, of
\* micros() - usLastByte and of what a slave-response callback writes: the
\* BREAK byte is peeked and stays in the queue
HardwareSerialResult(s, p, d) ==
  IF s.rxq # <<>>
    THEN HandlerResult(IF Head(s.rxq) = 0 /\ p > MinFramePause
                         THEN [s EXCEPT !.flagBreak = TRUE]
                         ELSE s, d)
    ELSE s

\* variant of the frame synchronisation that takes every byte 0x00 for a
\* BREAK, whatever the pause before it
SoftwareSerialSyncAnyPause(s, p) ==
  IF Head(s.rxq) = 0
    THEN [s EXCEPT !.flagBreak = TRUE, !.rxq = Tail(@)]
    ELSE s

\* the frame synchronisation of LIN_Slave_SoftwareSerial::handler: on the
\* SYNC byte for ESP32 and ESP8266, on the BREAK byte, which is removed from
\* the queue, for the other architectures
SoftwareSerialSync(s, p) ==
  IF hal = SoftwareSerial_ESP
    THEN IF Head(s.rxq) = 85 /\ p > MinFramePause
           THEN [s EXCEPT !.flagBreak = TRUE]
           ELSE s
    ELSE IF Head(s.rxq) = 0 /\ p > MinFramePause
           THEN [s EXCEPT !.flagBreak = TRUE, !.rxq = Tail(@)]
           ELSE s

\* what the slave-response callback addressed by the byte that the base
\* handler reads after the frame synchronisation may write
SoftwareSerialOutputs ==
  IF rxq # <<>> /\ SoftwareSerialSync(Obj, pause).rxq # <<>>
    THEN Vectors(BitAnd(callback[BitAnd(Head(SoftwareSerialSync(Obj, pause).rxq),
                                        63)].type_numData, 15))
    ELSE {<<>>}

\* variant of LIN_Slave_SoftwareSerial::handler that leaves the state as the
\* base-class handler set it
SoftwareSerialResultReadingEcho(s, p, d) ==
  IF s.rxq # <<>>
    THEN HandlerResult(SoftwareSerialSync(s, p), d)
    ELSE s

\* LIN_Slave_SoftwareSerial::handler as a function of the object, of
\* micros() - usLastByte and of what a slave-response callback writes
SoftwareSerialResult(s, p, d) ==
  IF s.rxq # <<>>
    THEN LET r == HandlerResult(SoftwareSerialSync(s, p), d)
         IN  IF r.state = STATE_RECEIVING_ECHO
               THEN DisableTransmitter([r EXCEPT !.state = STATE_DONE])
               ELSE r
    ELSE s

\* LIN_Slave_HardwareSerial::handler
handlerHardwareSerial ==
  /\ ~NullCalled
  /\ hal = HardwareSerial
  /\ \E d \in CallbackOutputs : Commit(HardwareSerialResult(Obj, pause, d))
  /\ pause' = IF rxq # <<>> THEN 0 ELSE pause
  /\ snap' = NoSnap
  /\ UNCHANGED <<version, callback, breaks, bus, ops, fnArg, fnRes, hal, pc>>

\* LIN_Slave_SoftwareSerial::handler
handlerSoftwareSerial ==
  /\ ~NullCalled
  /\ hal \in {SoftwareSerial, SoftwareSerial_ESP}
  /\ \E d \in SoftwareSerialOutputs :
        Commit(SoftwareSerialResult(Obj, pause, d))
  /\ pause' = IF rxq # <<>> THEN 0 ELSE pause
  /\ snap' = NoSnap
  /\ UNCHANGED <<version, callback, breaks, bus, ops, fnArg, fnRes, hal, pc>>

\* time passes: micros() advances
Tick ==
  /\ ~NullCalled
  /\ elapsed' = IF elapsed > TimeoutRx THEN elapsed ELSE elapsed + 1
  /\ pause' = IF hal = NeoHWSerial_AVR \/ pause > MinFramePause
                THEN pause ELSE pause + 1
  /\ snap' = NoSnap
  /\ UNCHANGED <<version, state, error, flagBreak, callback, pid, id, type,
                 numData, bufData, idxData, txEN, rxq, hist, calls, sent,
                 frameErr, breaks, bus, ops, fnArg, fnRes, hal, pc>>

(***************************************************************************)
(* Construction and registration                                           *)
(***************************************************************************)
\* the callback table after the constructor
EmptyTable == [i \in 0..(NumSlots - 1) |-> [type_numData |-> 0, fct |-> nullptr]]

\* variant of the registration that adds the kind to the kinds the slot has
RegisteredAddingKind(table, kind, ID, Fct, NumData) ==
  [table EXCEPT ![BitAnd(ID, 63)] =
     [type_numData |-> BitOr(BitAnd(@.type_numData, 240),
                             BitOr(kind, BitAnd(NumData, 15))),
      fct |-> Fct]]

\* the table after registerMasterRequestHandler / registerSlaveResponseHandler
Registered(table, kind, ID, Fct, NumData) ==
  [table EXCEPT ![BitAnd(ID, 63)] =
     [type_numData |-> BitOr(kind, BitAnd(NumData, 15)), fct |-> Fct]]

\* the value of a member the constructor leaves uninitialised: reading it
\* gives any value
Indeterminate == 256

\* LIN_Slave_Base::LIN_Slave_Base, then begin()
Fresh ==
  /\ version \in {LIN_V1, LIN_V2}
  /\ state = STATE_WAIT_FOR_BREAK
  /\ error = NO_ERROR
  /\ flagBreak = FALSE
  /\ id = 0
  /\ type = Indeterminate
  /\ numData = 0
  /\ bufData = [i \in 0..(BufLen - 1) |-> 0]
  /\ idxData = 0
  /\ elapsed = 0
  /\ txEN = FALSE
  /\ rxq = <<>>
  /\ hist = <<>>
  /\ calls = <<>>
  /\ sent = <<>>
  /\ frameErr = NO_ERROR
  /\ snap = NoSnap
  /\ breaks = 0
  /\ bus = <<>>
  /\ ops = 0
  /\ fnRes = NoRes
  /\ hal = NeoHWSerial_AVR
  /\ pause = 0
  /\ pc = "idle"

\* the object after the constructor, no calculation requested
Constructed ==
  /\ Fresh
  /\ pid = 0
  /\ fnArg = NoRes

\* the bus master raises a BREAK, after the bytes of its previous frame
\* have been read
Break(limit) ==
  /\ ~NullCalled
  /\ hal = NeoHWSerial_AVR
  /\ breaks < limit
  /\ rxq = <<>>
  /\ breaks' = breaks + 1
  /\ bus' = <<>>
  /\ flagBreak' = TRUE
  /\ snap' = NoSnap
  /\ UNCHANGED <<version, state, error, callback, pid, id, type, numData,
                 bufData, idxData, elapsed, txEN, rxq, hist, calls, sent,
                 frameErr, ops, fnArg, fnRes, hal, pause, pc>>

\* the byte source detects a BREAK and sets the flag
RaiseBreak == Break(MaxBreaks)

\* the BREAK of the single frame of the round-trip scenarios
StartFrame == Break(1)

(***************************************************************************)
(* The consumer's operations                                               *)
(***************************************************************************)
\* arguments of the registration calls: ID 0x10, and 0x50 with the same low
\* six bits
RegIdArgs == {16, 80}

\* arguments of the registration calls: callbacks
RegFctArgs == {"cbA", nullptr}

\* arguments of the registration calls: lengths
RegLenArgs == {1}

\* what the consumer's operations other than handler() leave unchanged
ApiFrame ==
  /\ ~NullCalled
  /\ ops < MaxOps
  /\ ops' = ops + 1
  /\ snap' = NoSnap
  /\ UNCHANGED <<version, pid, id, type, numData, bufData, idxData, elapsed,
                 rxq, hist, calls, sent, frameErr, breaks, bus, fnArg, fnRes, hal, pause, pc>>

\* LIN_Slave_Base::begin
BaseBegin ==
  /\ error' = NO_ERROR
  /\ state' = STATE_WAIT_FOR_BREAK
  /\ txEN' = FALSE

\* LIN_Slave_NeoHWSerial_AVR::begin: the base class method, then
\* _resetBreakFlag()
begin ==
  /\ BaseBegin
  /\ flagBreak' = FALSE
  /\ UNCHANGED callback
  /\ ApiFrame

\* variant of end() that leaves the transmitter as it is
BaseEndKeepingTransmitter ==
  /\ error' = NO_ERROR
  /\ state' = STATE_OFF
  /\ txEN' = txEN

\* LIN_Slave_Base::end
BaseEnd ==
  /\ error' = NO_ERROR
  /\ state' = STATE_OFF
  /\ txEN' = FALSE

\* LIN_Slave_NeoHWSerial_AVR::end: the base class method
end ==
  /\ BaseEnd
  /\ UNCHANGED <<flagBreak, callback>>
  /\ ApiFrame

\* LIN_Slave_Base::registerMasterRequestHandler
registerMasterRequestHandler ==
  /\ \E ID \in RegIdArgs, Fct \in RegFctArgs, NumData \in RegLenArgs :
       callback' = Registered(callback, MASTER_REQUEST, ID, Fct, NumData)
  /\ UNCHANGED <<state, error, txEN, flagBreak>>
  /\ ApiFrame

\* LIN_Slave_Base::registerSlaveResponseHandler
registerSlaveResponseHandler ==
  /\ \E ID \in RegIdArgs, Fct \in RegFctArgs, NumData \in RegLenArgs :
       callback' = Registered(callback, SLAVE_RESPONSE, ID, Fct, NumData)
  /\ UNCHANGED <<state, error, txEN, flagBreak>>
  /\ ApiFrame

\* variant of resetStateMachine that also clears the error mask
resetStateMachineClearing ==
  /\ state' = STATE_WAIT_FOR_BREAK
  /\ error' = NO_ERROR
  /\ UNCHANGED <<txEN, flagBreak, callback>>
  /\ ApiFrame

\* variant of resetStateMachine that leaves a closed interface closed
resetStateMachineIfOpen ==
  /\ state' = (IF state = STATE_OFF THEN STATE_OFF ELSE STATE_WAIT_FOR_BREAK)
  /\ UNCHANGED <<error, txEN, flagBreak, callback>>
  /\ ApiFrame

\* LIN_Slave_Base::resetStateMachine
resetStateMachine ==
  /\ state' = STATE_WAIT_FOR_BREAK
  /\ UNCHANGED <<error, txEN, flagBreak, callback>>
  /\ ApiFrame

\* LIN_Slave_Base::resetError
resetError ==
  /\ error' = NO_ERROR
  /\ UNCHANGED <<state, txEN, flagBreak, callback>>
  /\ ApiFrame

\* values read from an indeterminate frame type
IndeterminateReads == {0, MASTER_REQUEST, SLAVE_RESPONSE}

\* what getFrame() returns when called in the current state
FrameRead ==
  {<<Type, id, numData, Prefix(bufData, numData)>> :
     Type \in (IF type = Indeterminate THEN IndeterminateReads ELSE {type})}

\* LIN_Slave_Base::getFrame
getFrame ==
  /\ ~NullCalled
  /\ ops < MaxOps
  /\ ops' = ops + 1
  /\ \E Type \in (IF type = Indeterminate THEN IndeterminateReads ELSE {type}) :
       snap' = <<Type, id, numData, Prefix(bufData, numData)>>
  /\ UNCHANGED <<version, state, error, flagBreak, callback, pid, id, type,
                 numData, bufData, idxData, elapsed, txEN, rxq, hist, calls,
                 sent, frameErr, breaks, bus, fnArg, fnRes, hal, pause, pc>>

(***************************************************************************)
(* Specifications                                                          *)
(***************************************************************************)
\* after construction: nothing registered
Init ==
  /\ Constructed
  /\ callback = EmptyTable

Next ==
  \/ handler
  \/ Receive
  \/ RaiseBreak
  \/ begin
  \/ end
  \/ registerMasterRequestHandler
  \/ registerSlaveResponseHandler
  \/ resetStateMachine
  \/ resetError
  \/ getFrame

Spec == Init /\ [][Next]_vars

\* the IDs registered in the frame specification
FrameRegIds == {16, 61}

\* the tables of a node with one handler registered
FrameTables ==
  {Registered(EmptyTable, kind, ID, "cbA", NumData) :
     kind \in {MASTER_REQUEST, SLAVE_RESPONSE}, ID \in FrameRegIds,
     NumData \in 0..(BufLen - 1)}
  \cup
  {Registered(EmptyTable, kind, 16, nullptr, 2) :
     kind \in {MASTER_REQUEST, SLAVE_RESPONSE}}

\* a node with one handler registered before polling starts
InitFrame ==
  /\ Constructed
  /\ callback \in FrameTables

NextFrame == handler \/ Receive \/ StartFrame

SpecFrame == InitFrame /\ [][NextFrame]_vars

\* the tables of the timed specification: one frame of one data byte
TimedTables ==
  {Registered(EmptyTable, kind, 16, "cbA", 1) :
     kind \in {MASTER_REQUEST, SLAVE_RESPONSE}}

\* a node with one handler registered, polled while time passes
InitTimed ==
  /\ Constructed
  /\ callback \in TimedTables

NextTimed == handler \/ Receive \/ StartFrame \/ Tick

SpecTimed == InitTimed /\ [][NextTimed]_vars

\* variant of the flag read that reports a BREAK only between frames
_getBreakFlagBetweenFrames ==
  flagBreak /\ state \in {STATE_DONE, STATE_WAIT_FOR_BREAK}

\* LIN_Slave_NeoHWSerial_AVR::_getBreakFlag
_getBreakFlag == flagBreak

\* handler() up to its read of the break flag: the timeout check, then
\* _getBreakFlag()
handlerGetBreakFlag ==
  /\ ~NullCalled
  /\ hal = NeoHWSerial_AVR
  /\ pc = "idle"
  /\ Commit(TimeoutCheck(Obj))
  /\ pc' = IF _getBreakFlag = TRUE THEN "reset" ELSE "byte"
  /\ snap' = NoSnap
  /\ UNCHANGED <<version, callback, breaks, bus, ops, fnArg, fnRes, hal,
                 pause>>

\* handler(): _resetBreakFlag()
handlerResetBreakFlag ==
  /\ ~NullCalled
  /\ pc = "reset"
  /\ flagBreak' = FALSE
  /\ pc' = "enter"
  /\ snap' = NoSnap
  /\ UNCHANGED <<version, state, error, callback, pid, id, type, numData,
                 bufData, idxData, elapsed, txEN, rxq, hist, calls, sent,
                 frameErr, breaks, bus, ops, fnArg, fnRes, hal, pause>>

\* handler(): start frame reception and disable the transmitter
handlerEnterSync ==
  /\ ~NullCalled
  /\ pc = "enter"
  /\ Commit(DisableTransmitter(
              [Obj EXCEPT !.state = STATE_WAIT_FOR_SYNC, !.hist = <<>>,
                          !.calls = <<>>, !.sent = <<>>,
                          !.frameErr = NO_ERROR]))
  /\ pc' = "entered"
  /\ snap' = NoSnap
  /\ UNCHANGED <<version, callback, breaks, bus, ops, fnArg, fnRes, hal,
                 pause>>

\* handler(): a byte was received -> handle it; then handler() returns
handlerByte ==
  /\ ~NullCalled
  /\ pc \in {"byte", "entered"}
  /\ \E d \in CallbackOutputs : Commit(ByteCheck(Obj, d))
  /\ pc' = "idle"
  /\ snap' = NoSnap
  /\ UNCHANGED <<version, callback, breaks, bus, ops, fnArg, fnRes, hal,
                 pause>>

\* the receive interrupt detects a BREAK and sets the flag, wherever
\* handler() stands and whatever is in the receive queue
Interrupt ==
  /\ ~NullCalled
  /\ hal = NeoHWSerial_AVR
  /\ breaks < MaxBreaks
  /\ breaks' = breaks + 1
  /\ bus' = <<>>
  /\ flagBreak' = TRUE
  /\ snap' = NoSnap
  /\ UNCHANGED <<version, state, error, callback, pid, id, type, numData,
                 bufData, idxData, elapsed, txEN, rxq, hist, calls, sent,
                 frameErr, ops, fnArg, fnRes, hal, pause, pc>>

\* the byte source stores a byte of a frame header: the SYNC or the PID
\* candidate
ReceiveHeader ==
  /\ Len(bus) < 2
  /\ Receive

NextInterrupt ==
  \/ handlerGetBreakFlag
  \/ handlerResetBreakFlag
  \/ handlerEnterSync
  \/ handlerByte
  \/ ReceiveHeader
  \/ Interrupt

\* a node with one handler registered, whose handler() is interrupted
\* between its steps by the receive interrupt
SpecInterrupt == InitTimed /\ [][NextInterrupt]_vars

\* the interrupt specification with the consumer's loop calling handler()
\* again and again: weak fairness of each step of handler(); for the steps
\* that compute the whole object, WF_vars(A) is written as
\* []<>~ENABLED <<A>>_vars \/ []<><<A>>_vars with the enabling condition as a
\* state predicate (each of them changes pc, so it is enabled wherever its
\* guard holds)
SpecInterruptFair ==
  /\ SpecInterrupt
  /\ WF_vars(handlerResetBreakFlag)
  /\ \/ []<>~(~NullCalled /\ hal = NeoHWSerial_AVR /\ pc = "idle")
     \/ []<><<handlerGetBreakFlag>>_vars
  /\ \/ []<>~(~NullCalled /\ pc = "enter")
     \/ []<><<handlerEnterSync>>_vars
  /\ \/ []<>~(~NullCalled /\ pc \in {"byte", "entered"})
     \/ []<><<handlerByte>>_vars

\* the byte values that may appear on the bus next when the SYNC and the PID
\* position carry any byte value: the frame goes on after a SYNC byte 0x55
\* and after one of the PID candidates
OfferedAny ==
  IF Len(bus) = 0 THEN 0..255
  ELSE IF bus[1] # 85 THEN {}
  ELSE IF Len(bus) = 1 THEN 0..255
  ELSE IF bus[2] \notin PidVals THEN {}
  ELSE Offered

\* the byte source stores a received byte of any value
ReceiveAny ==
  /\ ~NullCalled
  /\ Len(rxq) < QueueCap
  /\ \E b \in OfferedAny : rxq' = Append(rxq, b) /\ bus' = Append(bus, b)
  /\ snap' = NoSnap
  /\ UNCHANGED <<version, state, error, flagBreak, callback, pid, id, type,
                 numData, bufData, idxData, elapsed, txEN, hist, calls, sent,
                 frameErr, breaks, ops, fnArg, fnRes, hal, pause, pc>>

NextBytes == handler \/ ReceiveAny \/ StartFrame

\* a node with one handler registered, polled over a frame whose SYNC and PID
\* bytes take every value
SpecBytes == InitTimed /\ [][NextBytes]_vars

\* a call of handler() would change the object: ENABLED <<handler>>_vars,
\* written as a state predicate
HandlerDue ==
  /\ ~NullCalled
  /\ hal = NeoHWSerial_AVR
  /\ \/ snap # NoSnap
     \/ \E d \in CallbackOutputs : HandlerResult(Obj, d) # Obj

\* the timed specification with time passing and with the consumer's loop
\* calling handler() again and again (weak fairness of handler, with its
\* enabling condition written out); bytes and the BREAK arrive or not
SpecTimedFair ==
  /\ SpecTimed
  /\ WF_vars(Tick)
  /\ ([]<>~HandlerDue \/ []<><<handler>>_vars)

\* arguments of the registration calls of the registration specification:
\* ID 0x10, and the protected IDs 0x50 (of 0x10) and 0x7D (of 0x3D)
AnyIdArgs == {16, 80, 125}

\* arguments of the registration calls of the registration specification:
\* every length of a LIN frame
AnyLenArgs == 0..(BufLen - 1)

\* registerMasterRequestHandler / registerSlaveResponseHandler, called once
\* in a run with the given arguments, which are kept for the properties
RegisterHandler(kind, ID, Fct, NumData) ==
  /\ ~NullCalled
  /\ fnArg = NoRes
  /\ callback' = Registered(callback, kind, ID, Fct, NumData)
  /\ fnArg' = [kind |-> kind, ID |-> ID, Fct |-> Fct, NumData |-> NumData]
  /\ snap' = NoSnap
  /\ UNCHANGED <<version, state, error, flagBreak, pid, id, type, numData,
                 bufData, idxData, elapsed, txEN, rxq, hist, calls, sent,
                 frameErr, breaks, bus, ops, fnRes, hal, pause, pc>>

\* LIN_Slave_Base::registerMasterRequestHandler with any length
registerMasterRequestHandlerAny ==
  \E ID \in AnyIdArgs, Fct \in RegFctArgs, NumData \in AnyLenArgs :
    RegisterHandler(MASTER_REQUEST, ID, Fct, NumData)

\* LIN_Slave_Base::registerSlaveResponseHandler with any length
registerSlaveResponseHandlerAny ==
  \E ID \in AnyIdArgs, Fct \in RegFctArgs, NumData \in AnyLenArgs :
    RegisterHandler(SLAVE_RESPONSE, ID, Fct, NumData)

\* the tables the registration specification starts from: nothing
\* registered, or ID 0x10 registered as a frame of one byte
RegistrationTables == {EmptyTable} \cup TimedTables

InitRegistration ==
  /\ Constructed
  /\ callback \in RegistrationTables

\* a step of the bus master or of handler() before the registration call of
\* the run
PolledBefore ==
  /\ fnArg = NoRes
  /\ (handler \/ Receive \/ StartFrame)

NextRegistration ==
  \/ PolledBefore
  \/ registerMasterRequestHandlerAny
  \/ registerSlaveResponseHandlerAny

\* a node polled over one frame up to a registration call, which comes at
\* any point of the frame
SpecRegistration == InitRegistration /\ [][NextRegistration]_vars

\* arguments of the registration calls: every value of the uint8_t NumData
ByteLenArgs == 0..255

\* LIN_Slave_Base::registerMasterRequestHandler with any uint8_t length
registerMasterRequestHandlerByte ==
  \E ID \in AnyIdArgs, Fct \in RegFctArgs, NumData \in ByteLenArgs :
    RegisterHandler(MASTER_REQUEST, ID, Fct, NumData)

\* LIN_Slave_Base::registerSlaveResponseHandler with any uint8_t length
registerSlaveResponseHandlerByte ==
  \E ID \in AnyIdArgs, Fct \in RegFctArgs, NumData \in ByteLenArgs :
    RegisterHandler(SLAVE_RESPONSE, ID, Fct, NumData)

NextRegistrationByte ==
  \/ registerMasterRequestHandlerByte
  \/ registerSlaveResponseHandlerByte

\* a node on which the consumer registers a handler with arguments that no
\* contract restricts
SpecRegistrationByte == InitRegistration /\ [][NextRegistrationByte]_vars

\* arguments of the registration calls: every value of the uint8_t ID,
\* protected IDs among them
ByteIdArgs == 0..255

\* LIN_Slave_Base::registerMasterRequestHandler with any uint8_t ID
registerMasterRequestHandlerId ==
  \E ID \in ByteIdArgs, Fct \in RegFctArgs, NumData \in RegLenArgs :
    RegisterHandler(MASTER_REQUEST, ID, Fct, NumData)

\* LIN_Slave_Base::registerSlaveResponseHandler with any uint8_t ID
registerSlaveResponseHandlerId ==
  \E ID \in ByteIdArgs, Fct \in RegFctArgs, NumData \in RegLenArgs :
    RegisterHandler(SLAVE_RESPONSE, ID, Fct, NumData)

NextRegistrationId ==
  \/ registerMasterRequestHandlerId
  \/ registerSlaveResponseHandlerId

\* a node on which the consumer registers a handler under any ID, given
\* protected or unprotected
SpecRegistrationId == InitRegistration /\ [][NextRegistrationId]_vars

\* the object after the constructor, begin() and end(), no calculation
\* requested
Ended ==
  /\ version \in {LIN_V1, LIN_V2}
  /\ state = STATE_OFF
  /\ error = NO_ERROR
  /\ flagBreak = FALSE
  /\ pid = 0
  /\ id = 0
  /\ type = Indeterminate
  /\ numData = 0
  /\ bufData = [i \in 0..(BufLen - 1) |-> 0]
  /\ idxData = 0
  /\ elapsed = 0
  /\ txEN = FALSE
  /\ rxq = <<>>
  /\ hist = <<>>
  /\ calls = <<>>
  /\ sent = <<>>
  /\ frameErr = NO_ERROR
  /\ snap = NoSnap
  /\ breaks = 0
  /\ bus = <<>>
  /\ ops = 0
  /\ fnArg = NoRes
  /\ fnRes = NoRes
  /\ hal = NeoHWSerial_AVR
  /\ pause = 0
  /\ pc = "idle"

\* a node with one handler registered, with its interface open or closed
InitReset ==
  /\ Constructed \/ Ended
  /\ callback \in TimedTables

NextReset ==
  \/ handler
  \/ Receive
  \/ RaiseBreak
  \/ end
  \/ resetStateMachine

\* a node polled over its frames, closed and reset by the consumer
SpecReset == InitReset /\ [][NextReset]_vars

NextLifecycle ==
  \/ handler
  \/ Receive
  \/ RaiseBreak
  \/ end
  \/ begin

\* a node polled over its frames, closed and opened by the consumer
SpecLifecycle == InitReset /\ [][NextLifecycle]_vars

\* a node with one handler registered before polling starts, then polled and
\* operated by the consumer
SpecRegistered == InitTimed /\ [][Next]_vars

\* the bus master raises the BREAK of its frame, after the bytes before it
\* have been read; the generic serial classes store it as a byte 0x00
ReceiveBreak ==
  /\ ~NullCalled
  /\ hal \in {HardwareSerial, SoftwareSerial}
  /\ breaks < 1
  /\ rxq = <<>>
  /\ breaks' = breaks + 1
  /\ bus' = <<>>
  /\ rxq' = <<0>>
  /\ snap' = NoSnap
  /\ UNCHANGED <<version, state, error, flagBreak, callback, pid, id, type,
                 numData, bufData, idxData, elapsed, txEN, hist, calls, sent,
                 frameErr, ops, fnArg, fnRes, hal, pause, pc>>

\* the bus master raises the BREAK of its frame, after the bytes before it
\* have been read; SoftwareSerial for ESP32 and ESP8266 drops it for its
\* missing stop bit
DroppedBreak ==
  /\ ~NullCalled
  /\ hal = SoftwareSerial_ESP
  /\ breaks < 1
  /\ rxq = <<>>
  /\ breaks' = breaks + 1
  /\ bus' = <<>>
  /\ snap' = NoSnap
  /\ UNCHANGED <<version, state, error, flagBreak, callback, pid, id, type,
                 numData, bufData, idxData, elapsed, txEN, rxq, hist, calls,
                 sent, frameErr, ops, fnArg, fnRes, hal, pause, pc>>

\* the classes of the serial specification
Hals == {NeoHWSerial_AVR, HardwareSerial, SoftwareSerial, SoftwareSerial_ESP}

\* an object of one of the classes after the constructor and begin(), with
\* one handler registered; usLastByte is a function-local static that
\* begin() does not touch
InitSerial ==
  /\ version \in {LIN_V1, LIN_V2}
  /\ state = STATE_WAIT_FOR_BREAK
  /\ error = NO_ERROR
  /\ flagBreak = FALSE
  /\ pid = 0
  /\ id = 0
  /\ type = Indeterminate
  /\ numData = 0
  /\ bufData = [i \in 0..(BufLen - 1) |-> 0]
  /\ idxData = 0
  /\ elapsed = 0
  /\ txEN = FALSE
  /\ rxq = <<>>
  /\ hist = <<>>
  /\ calls = <<>>
  /\ sent = <<>>
  /\ frameErr = NO_ERROR
  /\ snap = NoSnap
  /\ breaks = 0
  /\ bus = <<>>
  /\ ops = 0
  /\ fnArg = NoRes
  /\ fnRes = NoRes
  /\ hal \in Hals
  /\ pause \in (IF hal = NeoHWSerial_AVR THEN {0} ELSE 0..(MinFramePause + 1))
  /\ pc = "idle"
  /\ callback \in TimedTables

NextSerial ==
  \/ handler
  \/ handlerHardwareSerial
  \/ handlerSoftwareSerial
  \/ Receive
  \/ StartFrame
  \/ ReceiveBreak
  \/ DroppedBreak
  \/ Tick

\* a node of any of the serial classes, polled while time passes
SpecSerial == InitSerial /\ [][NextSerial]_vars

\* the declared lengths of the master request of the recovery specification
RecoveryLens == {0, 2, 4}

\* the tables of the recovery specification: a master request for ID 0x10,
\* alone or beside a slave response of one byte for ID 0x3D
RecoveryTables ==
  {Registered(EmptyTable, MASTER_REQUEST, 16, "cbA", n) : n \in RecoveryLens}
  \cup
  {Registered(Registered(EmptyTable, MASTER_REQUEST, 16, "cbA", 2),
              SLAVE_RESPONSE, 61, "cbA", 1)}

\* a node with its handlers registered, polled over several frames
InitRecovery ==
  /\ Constructed
  /\ callback \in RecoveryTables

NextRecovery == handler \/ Receive \/ RaiseBreak

SpecRecovery == InitRecovery /\ [][NextRecovery]_vars

\* the object after the constructor and begin(), as a record
ConstructedObj ==
  [state |-> STATE_WAIT_FOR_BREAK, error |-> NO_ERROR, flagBreak |-> FALSE,
   pid |-> 0, id |-> 0, type |-> Indeterminate, numData |-> 0,
   bufData |-> [i \in 0..(BufLen - 1) |-> 0], idxData |-> 0, elapsed |-> 0,
   txEN |-> FALSE, rxq |-> <<>>, hist |-> <<>>, calls |-> <<>>,
   sent |-> <<>>, frameErr |-> NO_ERROR]

\* the object after handler() has read each of the bytes, one per call
RECURSIVE Polled(_, _)
Polled(s, bytes) ==
  IF bytes = <<>>
    THEN s
    ELSE Polled(HandlerResult([s EXCEPT !.rxq = <<Head(bytes)>>], <<>>),
                Tail(bytes))

(***************************************************************************)
(* The calculations on their own                                           *)
(***************************************************************************)
\* what a calculation leaves unchanged: the whole object
CalcFrame ==
  /\ Len(fnRes) < MaxApply
  /\ UNCHANGED <<version, state, error, flagBreak, callback, pid, id, type,
                 numData, bufData, idxData, elapsed, txEN, rxq, hist, calls,
                 sent, frameErr, snap, breaks, bus, ops, hal, pause, pc>>

\* a call of _calculatePID(ID); the argument is passed by value
calculatePID ==
  /\ fnRes' = Append(fnRes, _calculatePID(fnArg.ID))
  /\ fnArg' = fnArg
  /\ CalcFrame

\* any 8-bit argument of _calculatePID
InitPID ==
  /\ Fresh
  /\ pid = 0
  /\ callback = EmptyTable
  /\ fnArg \in [ID : 0..255]

SpecPID == InitPID /\ [][calculatePID]_vars

\* a call of _calculateChecksum(NumData, Data); Data is only read
calculateChecksum ==
  /\ fnRes' = Append(fnRes,
                     _calculateChecksum(version, pid, fnArg.NumData, fnArg.Data))
  /\ fnArg' = fnArg
  /\ CalcFrame

\* first bytes and steps of the data vectors of the checksum specification
CalcBytes == {0, 128, 255}
CalcSteps == {0, 1, 127}

\* buffers holding n bytes that start at b and advance by step
CalcBuffers(n) ==
  {AsBuffer([k \in 1..n |-> (b + (k - 1) * step) % 256]) :
     b \in CalcBytes, step \in CalcSteps}

\* any protected ID in the object, and a data vector of up to 8 bytes
InitChecksum ==
  /\ Fresh
  /\ pid \in 0..255
  /\ callback = EmptyTable
  /\ \E n \in 0..(BufLen - 1) :
       fnArg \in [NumData : {n}, Data : CalcBuffers(n)]

SpecChecksum == InitChecksum /\ [][calculateChecksum]_vars

(***************************************************************************)
(* Properties                                                              *)
(***************************************************************************)
\* the protected ID of a 6-bit ID, from the LIN parity equations
RefPID(i) ==
  i + 64 * Parity(<<Bit(i, 0), Bit(i, 1), Bit(i, 2), Bit(i, 4)>>)
    + 128 * (1 - Parity(<<Bit(i, 1), Bit(i, 3), Bit(i, 4), Bit(i, 5)>>))

\* the slot has a non-null callback of the given kind
SlotIs(slot, kind) ==
  slot.fct # nullptr /\ (slot.type_numData \div 16) * 16 = kind

\* the declared length of a slot
SlotLen(slot) == slot.type_numData % 16

\* a step of handler(): it leaves the bus master and the consumer alone
HandlerStep ==
  /\ UNCHANGED <<breaks, bus, ops>>
  /\ handler

\* every bit set in mask a is set in mask b
BitsKept(a, b) == \A k \in 0..7 : Bit(a, k) = 1 => Bit(b, k) = 1

\* the master has sent BREAK, 0x55, the protected ID of a registered master
\* request, as many data bytes as declared and their checksum, and the
\* handler has read all of it
MasterRequestFed ==
  /\ breaks = 1
  /\ flagBreak = FALSE
  /\ rxq = <<>>
  /\ Len(bus) >= 3
  /\ bus[1] = 85
  /\ bus[2] = RefPID(bus[2] % 64)
  /\ SlotIs(callback[bus[2] % 64], MASTER_REQUEST)
  /\ Len(bus) = SlotLen(callback[bus[2] % 64]) + 3
  /\ bus[Len(bus)] = LinChecksum(RefSeed(version, bus[2]),
                                 SubSeq(bus, 3, Len(bus) - 1))

\* C1: once a complete, correct master-request frame for a registered ID
\* has been fed through handler(), the callback was invoked exactly once with
\* the declared length and the data bytes sent, no error is latched and the
\* state is Done.
C1_MasterRequestRoundTrip ==
  MasterRequestFed =>
    /\ state = STATE_DONE
    /\ error = NO_ERROR
    /\ calls = <<[id |-> bus[2] % 64, fct |-> callback[bus[2] % 64].fct,
                  numData |-> Len(bus) - 3,
                  data |-> SubSeq(bus, 3, Len(bus) - 1)]>>

\* the handler has just consumed 0x55 and the protected ID of a registered
\* slave response
SlaveResponsePidConsumed ==
  /\ Len(hist) = 2
  /\ hist[1] = 85
  /\ hist[2] = RefPID(hist[2] % 64)
  /\ SlotIs(callback[hist[2] % 64], SLAVE_RESPONSE)

\* C2: after the handler step that consumes the valid PID of a registered
\* slave response, the callback was invoked once, exactly one write was made,
\* of the callback's n bytes followed by their checksum (seeded with the
\* protected ID under V2 for non-diagnostic IDs), the transmitter was enabled
\* at the write, and the state is ReceivingEcho.
C2_SlaveResponse ==
  SlaveResponsePidConsumed =>
    LET slot == callback[hist[2] % 64]
    IN  /\ state = STATE_RECEIVING_ECHO
        /\ Len(calls) = 1
        /\ calls[1].id = hist[2] % 64
        /\ calls[1].fct = slot.fct
        /\ calls[1].numData = SlotLen(slot)
        /\ Len(calls[1].data) = SlotLen(slot)
        /\ Len(sent) = 1
        /\ sent[1].txEN = TRUE
        /\ sent[1].bytes =
             calls[1].data \o
               <<LinChecksum(RefSeed(version, hist[2]), calls[1].data)>>

\* a V2 slave response of eight bytes for the non-diagnostic ID 0x10 was sent
C2_Witness ==
  /\ SlaveResponsePidConsumed
  /\ version = LIN_V2
  /\ hist[2] = 80
  /\ Len(sent) = 1
  /\ Len(sent[1].bytes) = 9
  /\ state = STATE_RECEIVING_ECHO

\* the states inside a frame
MidFrame ==
  {STATE_WAIT_FOR_SYNC, STATE_WAIT_FOR_PID, STATE_RECEIVING_DATA,
   STATE_RECEIVING_ECHO, STATE_WAIT_FOR_CHK}

\* C3: in every state inside a frame with more than the timeout elapsed since
\* the last byte (and no BREAK or byte pending), an invocation of handler()
\* latches ERROR_TIMEOUT, ends in Done and leaves transmit-enable deasserted.
C3_ReceiveTimeout ==
  (state \in MidFrame /\ elapsed > TimeoutRx /\ flagBreak = FALSE /\ rxq = <<>>)
    => \A d \in CallbackOutputs :
         LET r == HandlerResult(Obj, d)
         IN  /\ Bit(r.error, 2) = 1
             /\ r.state = STATE_DONE
             /\ r.txEN = FALSE

\* the checksum of the received data, by the LIN rules
ExpectedChecksum ==
  LinChecksum(RefSeed(version, pid), Prefix(bufData, numData))

\* C4: a handler step that reads, in WaitForChecksum, a byte different from
\* the checksum of the received data latches ERROR_CHK, ends in Done and
\* invokes no callback.
C4_ChecksumMismatch ==
  [][(/\ state = STATE_WAIT_FOR_CHK
      /\ flagBreak = FALSE
      /\ rxq # <<>>
      /\ Head(rxq) # ExpectedChecksum
      /\ HandlerStep)
     => (/\ Bit(error', 3) = 1
         /\ state' = STATE_DONE
         /\ calls' = calls)]_vars

\* a frame was ended by a checksum byte one above the correct one
C4_Witness ==
  /\ state = STATE_DONE
  /\ frameErr = ERROR_CHK
  /\ calls = <<>>
  /\ Len(hist) >= 4
  /\ hist[Len(hist)] = (ExpectedChecksum + 1) % 256

\* C5: a handler step that reads, in WaitForPid, a parity-valid PID whose slot
\* has a null callback returns to WaitForBreak, changes no error bit, invokes
\* no callback and transmits nothing; and in WaitForBreak, without a BREAK, a
\* handler step changes nothing but the receive queue.
C5_UnregisteredId ==
  [][/\ (/\ state = STATE_WAIT_FOR_PID
         /\ flagBreak = FALSE
         /\ rxq # <<>>
         /\ Head(rxq) = RefPID(Head(rxq) % 64)
         /\ callback[Head(rxq) % 64].fct = nullptr
         /\ HandlerStep)
        => (/\ state' = STATE_WAIT_FOR_BREAK
            /\ error' = error
            /\ calls' = calls
            /\ sent' = sent
            /\ txEN' = txEN)
     /\ (/\ state = STATE_WAIT_FOR_BREAK
         /\ flagBreak = FALSE
         /\ HandlerStep)
        => (/\ state' = STATE_WAIT_FOR_BREAK
            /\ rxq' = (IF rxq = <<>> THEN rxq ELSE Tail(rxq))
            /\ UNCHANGED <<error, calls, sent, txEN, hist, pid, id, type,
                           numData, bufData, idxData>>)]_vars

\* the PID of an ID registered with a null callback was handled and the
\* bytes the master sent after it were read without effect
C5_Witness ==
  /\ state = STATE_WAIT_FOR_BREAK
  /\ Len(hist) = 2
  /\ hist[2] = RefPID(hist[2] % 64)
  /\ callback[hist[2] % 64].type_numData # 0
  /\ callback[hist[2] % 64].fct = nullptr
  /\ frameErr = NO_ERROR
  /\ calls = <<>>
  /\ sent = <<>>
  /\ Len(bus) >= 4
  /\ rxq = <<>>
  /\ ops = 1

\* C6: for every ID in 0..63 the low six bits of _calculatePID(ID) are the
\* ID, bit 6 is ID0 xor ID1 xor ID2 xor ID4 and bit 7 is the inverse of
\* ID1 xor ID3 xor ID4 xor ID5.
C6_ProtectedId ==
  \A k \in 1..Len(fnRes) :
    fnArg.ID < 64 =>
      /\ fnRes[k] % 64 = fnArg.ID
      /\ Bit(fnRes[k], 6) = Parity(<<Bit(fnArg.ID, 0), Bit(fnArg.ID, 1),
                                     Bit(fnArg.ID, 2), Bit(fnArg.ID, 4)>>)
      /\ Bit(fnRes[k], 7) = 1 - Parity(<<Bit(fnArg.ID, 1), Bit(fnArg.ID, 3),
                                         Bit(fnArg.ID, 4), Bit(fnArg.ID, 5)>>)

\* the protected ID of 0x3D was calculated: 0x7D
C6_Witness ==
  /\ fnArg.ID = 61
  /\ fnRes # <<>>
  /\ fnRes[1] = 125

\* C7: with a valid protected ID in the object, _calculateChecksum returns
\* the classical checksum (seed 0) when the version is V1 or the ID is 0x3C
\* or 0x3D and the checksum seeded with the protected ID otherwise; a
\* repeated call returns the same value, and no call changes the data or the
\* object.
C7_ChecksumMode ==
  [][calculateChecksum =>
      LET data == Prefix(fnArg.Data, fnArg.NumData)
          seed == IF version = LIN_V1 \/ pid % 64 = 60 \/ pid % 64 = 61
                    THEN 0 ELSE pid
      IN  /\ (pid = RefPID(pid % 64))
               => fnRes'[Len(fnRes')] = LinChecksum(seed, data)
          /\ (fnRes # <<>>) => fnRes'[Len(fnRes')] = fnRes[Len(fnRes)]
          /\ fnArg' = fnArg
          /\ UNCHANGED <<version, state, error, flagBreak, callback, pid, id,
                         type, numData, bufData, idxData, txEN, rxq>>]_vars

\* the checksum of eight bytes was computed twice under V2 for the
\* diagnostic ID 0x3D
C7_Witness ==
  /\ version = LIN_V2
  /\ pid = 125
  /\ fnArg.NumData = 8
  /\ Len(fnRes) = MaxApply
  /\ fnRes[1] = LinChecksum(0, Prefix(fnArg.Data, 8))

\* C8: for every seed and data vector the accumulator of the checksum loop is
\* at most 255 after each add-and-fold step, the inverted result is 0xFF
\* minus the end-around-carry sum of seed and data, and so is every value
\* _calculateChecksum returned for the seed it chose.
C8_ChecksumArithmetic ==
  LET n == fnArg.NumData
      data == Prefix(fnArg.Data, n)
  IN  /\ \A m \in 0..n : ChecksumLoop(U16(pid), 0, m, fnArg.Data) <= 255
      /\ ChecksumInvert(ChecksumLoop(U16(pid), 0, n, fnArg.Data))
           = 255 - RefSum(pid, data)
      /\ \A k \in 1..Len(fnRes) :
           fnRes[k] = 255 - RefSum(ChecksumSeed(version, pid), data)

\* the checksum of eight bytes 0xFF with seed 0xFF was computed: 0x00
C8_Witness ==
  /\ version = LIN_V2
  /\ pid = 255
  /\ fnArg.NumData = 8
  /\ \A i \in 0..7 : fnArg.Data[i] = 255
  /\ fnRes # <<>>
  /\ fnRes[1] = 0

\* C9: no step of handler() clears an error bit that was set before it.
C9_HandlerAccumulates ==
  [][BitsKept(error, error') \/ ~HandlerStep]_vars

\* a frame was aborted with ERROR_SYNC and a later one with ERROR_CHK, and
\* both bits are set
C9_Witness ==
  /\ breaks = 2
  /\ frameErr = ERROR_CHK
  /\ Bit(error, 4) = 1
  /\ Bit(error, 3) = 1

\* C10: every step keeps the error bits that are set, except the steps of
\* resetError().
C10_StickyUntilResetError ==
  [][BitsKept(error, error') \/ resetError]_vars

\* C10, amended: every step keeps the error bits that are set, except the
\* steps of resetError(), begin() and end().
C10_StickyUntilResetOrRestart ==
  [][BitsKept(error, error') \/ resetError \/ begin \/ end]_vars

\* an error was latched in the current frame, resetStateMachine() was called
\* and the error is still set
C10_Witness ==
  /\ state = STATE_WAIT_FOR_BREAK
  /\ frameErr # NO_ERROR
  /\ BitsKept(frameErr, error)
  /\ ops = 1

\* C11: whenever an invocation of handler() would set an error bit that is
\* not set before it, the state when the invocation returns is Done.
C11_AbortForcesDone ==
  \A d \in CallbackOutputs :
    LET r == HandlerResult(Obj, d)
    IN  ~BitsKept(r.error, error) => r.state = STATE_DONE

\* a slave response was aborted by a wrong echo byte: ERROR_ECHO is latched
\* and the state is Done
C11_Witness ==
  /\ state = STATE_DONE
  /\ frameErr = ERROR_ECHO
  /\ Len(sent) = 1
  /\ Len(hist) >= 3
  /\ hist[Len(hist)] # sent[1].bytes[Len(hist) - 2]

\* the master has sent, after its latest BREAK, 0x55, the protected ID of a
\* registered master request, as many data bytes as declared and their
\* checksum, and the handler has read all of it
MasterFrameFed ==
  /\ flagBreak = FALSE
  /\ rxq = <<>>
  /\ Len(bus) >= 3
  /\ bus[1] = 85
  /\ bus[2] = RefPID(bus[2] % 64)
  /\ SlotIs(callback[bus[2] % 64], MASTER_REQUEST)
  /\ Len(bus) = SlotLen(callback[bus[2] % 64]) + 3
  /\ bus[Len(bus)] = LinChecksum(RefSeed(version, bus[2]),
                                 SubSeq(bus, 3, Len(bus) - 1))

\* the object after the same frame was read by a newly constructed node
DecodedFromInitial ==
  Polled([ConstructedObj EXCEPT !.flagBreak = TRUE], bus)

C13_TransmitEnable ==
  txEN = TRUE => state = STATE_RECEIVING_ECHO

C15_OffUntilBegin ==
  [][(state = STATE_OFF /\ HandlerStep)
       => (state' = STATE_OFF /\ calls' = calls /\ sent' = sent)]_vars

\* C16: in Done and in WaitForBreak, with a byte available and no BREAK
\* pending, an invocation of handler() removes that byte from the receive
\* queue and leaves the state, the error mask, the frame ID, kind, length,
\* fill index, data buffer and transmit-enable line as they are, invokes no
\* callback and transmits nothing.
C16_DoneIgnoresBytes ==
  (state \in {STATE_DONE, STATE_WAIT_FOR_BREAK} /\ flagBreak = FALSE
     /\ rxq # <<>>)
    => \A d \in CallbackOutputs :
         LET r == HandlerResult(Obj, d)
         IN  /\ r.rxq = Tail(rxq)
             /\ r.state = state
             /\ r.error = error
             /\ r.pid = pid
             /\ r.id = id
             /\ r.type = type
             /\ r.numData = numData
             /\ r.idxData = idxData
             /\ r.bufData = bufData
             /\ r.txEN = txEN
             /\ r.calls = calls
             /\ r.sent = sent

\* a frame was aborted by a wrong SYNC byte, and the two bytes the master
\* sent after it were read in Done without effect
C16_Witness ==
  /\ state = STATE_DONE
  /\ frameErr = ERROR_SYNC
  /\ error = ERROR_SYNC
  /\ hist = <<0>>
  /\ Len(bus) = 3
  /\ rxq = <<>>

\* the states of a frame in progress after its SYNC byte
InProgress ==
  {STATE_WAIT_FOR_PID, STATE_RECEIVING_DATA, STATE_RECEIVING_ECHO,
   STATE_WAIT_FOR_CHK}

\* C17: getFrame() returns the kind, ID, length and data of the last frame
\* that reached Done, so a step of handler() that leaves a frame in progress
\* (WaitForPid, ReceivingData, ReceivingEcho, WaitForChecksum) does not
\* change what getFrame() returns.
C17_FrameOfLastDone ==
  [][(state' \in InProgress /\ HandlerStep) => FrameRead' = FrameRead]_vars

\* C18: handler() never calls through a table slot whose callback reference
\* is null.
C18_NullNeverInvoked ==
  \A k \in 1..Len(calls) : calls[k].fct # nullptr

\* C19: a call of registerMasterRequestHandler(ID, f, n) or
\* registerSlaveResponseHandler(ID, f, n) with n in 0..8 leaves slot ID mod 64
\* with exactly the kind of the call, the length n and the callback f,
\* whatever the slot held, and leaves every other slot, the state, the error
\* mask, the transmit-enable line and the frame ID, kind, length, fill index
\* and data buffer unchanged.
C19_RegistrationEffect ==
  [][(fnArg' # fnArg)
       => LET a == fnArg'
          IN  /\ callback'[a.ID % 64] =
                   [type_numData |-> a.kind + a.NumData, fct |-> a.Fct]
              /\ \A i \in 0..(NumSlots - 1) :
                   i # a.ID % 64 => callback'[i] = callback[i]
              /\ UNCHANGED <<state, error, txEN, pid, id, type, numData,
                             idxData, bufData>>]_vars

\* while a master request of one byte for ID 0x10 was waiting for its data,
\* the ID was registered again, through its protected ID 0x50, as a slave
\* response of eight bytes with a null callback
C19_Witness ==
  /\ state = STATE_RECEIVING_DATA
  /\ type = MASTER_REQUEST
  /\ numData = 1
  /\ fnArg = [kind |-> SLAVE_RESPONSE, ID |-> 80, Fct |-> nullptr,
              NumData |-> 8]
  /\ callback[16] = [type_numData |-> SLAVE_RESPONSE + 8, fct |-> nullptr]
  /\ \A i \in 0..(NumSlots - 1) : i # 16 => callback[i] = EmptyTable[i]

\* C20: a call of resetStateMachine() leaves the state WaitForBreak, from
\* every state, and changes neither the error mask, the callback table, the
\* frame ID, kind, length, fill index and data buffer, nor the break flag
\* and the transmit-enable line.
C20_ResetStateMachine ==
  [][(ops' = ops + 1 /\ resetStateMachine)
       => /\ state' = STATE_WAIT_FOR_BREAK
          /\ UNCHANGED <<error, callback, pid, id, type, numData, idxData,
                         bufData, flagBreak, txEN>>]_vars

\* resetStateMachine() was called while a slave response was waiting for its
\* echo: the state is WaitForBreak, and frame ID, length, fill index and
\* transmit-enable line are as the frame left them
C20_Witness ==
  /\ ops = 1
  /\ state = STATE_WAIT_FOR_BREAK
  /\ Len(sent) = 1
  /\ hist = <<85, 80>>
  /\ id = 16
  /\ numData = 1
  /\ idxData = 0
  /\ txEN = TRUE

\* C21: a call of end(), in any state, leaves the state Off and the
\* transmit-enable line deasserted; a call of begin() leaves the state
\* WaitForBreak, the transmit-enable line deasserted and the break flag
\* cleared; neither call changes the callback table.
C21_Lifecycle ==
  [][/\ (ops' = ops + 1 /\ end)
          => (state' = STATE_OFF /\ txEN' = FALSE /\ callback' = callback)
     /\ (ops' = ops + 1 /\ begin)
          => (state' = STATE_WAIT_FOR_BREAK /\ txEN' = FALSE
                /\ flagBreak' = FALSE /\ callback' = callback)]_vars

\* end() was called while a slave response was waiting for its echo: the
\* state is Off, the transmit-enable line is deasserted and the handler is
\* still registered
C21_Witness ==
  /\ ops = 1
  /\ state = STATE_OFF
  /\ txEN = FALSE
  /\ Len(sent) = 1
  /\ sent[1].txEN = TRUE
  /\ hist = <<85, 80>>
  /\ callback[16].fct = "cbA"

C23_GapNeverAccepted ==
  (/\ state \in {STATE_WAIT_FOR_PID, STATE_RECEIVING_DATA, STATE_WAIT_FOR_CHK}
   /\ elapsed > TimeoutRx
   /\ flagBreak = FALSE
   /\ rxq # <<>>)
    => \A d \in CallbackOutputs :
         LET r == HandlerResult(Obj, d)
         IN  /\ r.pid = pid
             /\ r.bufData = bufData
             /\ r.idxData = idxData
             /\ r.calls = calls

\* C24: a node that waits for the echo of its response with transmit-enable
\* asserted eventually reaches Done with transmit-enable deasserted, also
\* when the echo bytes stop arriving
C24_TransmitterReleased ==
  (state = STATE_RECEIVING_ECHO /\ txEN = TRUE)
    ~> (state = STATE_DONE /\ txEN = FALSE)

\* C25: for every byte value b read in WaitForPid: when b differs from the
\* protected ID of its low six bits, ERROR_PID is latched, the state becomes
\* Done, no callback is invoked and nothing is transmitted, also when a
\* handler is registered for the ID; otherwise ERROR_PID is not latched
C25_PidParity ==
  [][(/\ state = STATE_WAIT_FOR_PID
      /\ flagBreak = FALSE
      /\ rxq # <<>>
      /\ HandlerStep)
       => IF Head(rxq) # RefPID(Head(rxq) % 64)
            THEN /\ Bit(error', 5) = 1
                 /\ state' = STATE_DONE
                 /\ calls' = calls
                 /\ sent' = sent
                 /\ txEN' = FALSE
            ELSE Bit(error', 5) = Bit(error, 5)]_vars

\* the byte 0x90, the registered ID 0x10 with both parity bits wrong, was
\* read as PID
C25_Witness ==
  /\ hist = <<85, 144>>
  /\ callback[16].fct = "cbA"
  /\ state = STATE_DONE
  /\ error = ERROR_PID
  /\ calls = <<>>
  /\ sent = <<>>

\* C27: a byte handled in WaitForSync moves the engine to WaitForPid with
\* the data index 0 and the error mask unchanged when it is 0x55; every other
\* value adds ERROR_SYNC and no other bit to the error mask and moves the
\* engine to Done
C27_SyncCheck ==
  [][(/\ state = STATE_WAIT_FOR_SYNC \/ flagBreak = TRUE
      /\ rxq # <<>>
      /\ HandlerStep)
       => IF Head(rxq) = 85
            THEN /\ state' = STATE_WAIT_FOR_PID
                 /\ idxData' = 0
                 /\ error' = error
            ELSE /\ state' = STATE_DONE
                 /\ error' = error + (IF Bit(error, 4) = 1 THEN 0 ELSE ERROR_SYNC)]_vars

\* the byte 0xD5, which differs from 0x55 in its top bit only, was handled
\* as SYNC
C27_Witness ==
  /\ hist = <<213>>
  /\ state = STATE_DONE
  /\ error = ERROR_SYNC
  /\ breaks = 1

\* the bytes handled after the PID of the frame
EchoRead == SubSeq(hist, 3, Len(hist))

\* C26: after the node has sent its response of n data bytes and the
\* checksum, the bytes it handles are compared with the bytes sent, in order:
\* while they are equal and fewer than n+1 the engine stays in ReceivingEcho
\* with transmit-enable asserted and no error; with the (n+1)-th equal byte it
\* is in Done with no error; with the first differing byte it is in Done
\* with ERROR_ECHO as the only error; in Done transmit-enable is deasserted
C26_EchoVerification ==
  Len(sent) = 1 =>
    LET t == sent[1].bytes
        e == EchoRead
    IN  /\ Len(t) = SlotLen(callback[hist[2] % 64]) + 1
        /\ Len(e) <= Len(t)
        /\ \A k \in 1..(Len(e) - 1) : e[k] = t[k]
        /\ IF Len(e) > 0 /\ e[Len(e)] # t[Len(e)]
             THEN state = STATE_DONE /\ frameErr = ERROR_ECHO /\ txEN = FALSE
           ELSE IF Len(e) = Len(t)
             THEN state = STATE_DONE /\ frameErr = NO_ERROR /\ txEN = FALSE
           ELSE /\ state = STATE_RECEIVING_ECHO
                /\ frameErr = NO_ERROR
                /\ txEN = TRUE

\* the echo of a response of two data bytes and the checksum was read
C26_Witness ==
  /\ Len(sent) = 1
  /\ Len(sent[1].bytes) = 3
  /\ EchoRead = sent[1].bytes
  /\ state = STATE_DONE
  /\ error = NO_ERROR
  /\ txEN = FALSE

\* C28: with the generic HardwareSerial class, a frame that starts with the
\* BREAK byte 0x00 after an inter-frame pause and goes on with the SYNC byte
\* 0x55 latches no ERROR_SYNC: the BREAK byte is not handled as the SYNC
\* candidate
C28_BreakByteNotSync ==
  (/\ hal = HardwareSerial
   /\ breaks = 1
   /\ Len(bus) >= 1
   /\ bus[1] = 85)
    => Bit(frameErr, 4) = 0

\* C29: however the receive interrupt interleaves with the flag read, the
\* flag clear and the state change of handler(), a BREAK raised is followed
\* by the engine entering WaitForSync at or after the raise, and the break
\* flag does not stay set for ever
C29_NoBreakLost ==
  /\ (flagBreak = TRUE /\ pc # "entered") ~> (pc = "entered")
  /\ (flagBreak = TRUE) ~> (flagBreak = FALSE)

\* the second BREAK was raised after handler() had cleared the flag for the
\* first and before it returned
C29_Witness ==
  /\ breaks = 2
  /\ pc = "entered"
  /\ flagBreak = TRUE
  /\ state = STATE_WAIT_FOR_SYNC

C31_TransmitOnlyAsResponder ==
  [][(sent' # sent /\ sent' # <<>>)
       => /\ UNCHANGED <<breaks, bus, ops, callback>>
          /\ sent = <<>>
          /\ Len(sent') = 1
          /\ state = STATE_WAIT_FOR_PID
          /\ flagBreak = FALSE
          /\ rxq # <<>>
          /\ rxq' = Tail(rxq)
          /\ Head(rxq) = RefPID(Head(rxq) % 64)
          /\ SlotIs(callback[Head(rxq) % 64], SLAVE_RESPONSE)]_vars

\* a response was sent in the second frame, for an ID that the consumer
\* registered as slave response after the first frame
C31_Witness ==
  /\ breaks = 2
  /\ ops = 1
  /\ Len(sent) = 1
  /\ hist[2] = 80
  /\ SlotIs(callback[16], SLAVE_RESPONSE)

\* the object when handler() has passed its BREAK check
AtByteCheck == BreakCheck(TimeoutCheck(Obj))

\* C32: with every registered length at most 8, the fill index is at most 9,
\* every index at which handler() reads or writes the frame buffer is in
\* 0..8, and every index into the callback table is in 0..63
C32_BufferBounds ==
  /\ idxData <= BufLen
  /\ numData <= BufLen - 1
  /\ rxq # <<>> =>
       /\ BufferIndexes(AtByteCheck, Head(rxq)) \subseteq 0..(BufLen - 1)
       /\ TableIndexes(AtByteCheck, Head(rxq)) \subseteq 0..(NumSlots - 1)

\* the checksum of a master request of eight data bytes is awaited: the
\* buffer is full up to index 7
C32_Witness ==
  /\ state = STATE_WAIT_FOR_CHK
  /\ numData = 8
  /\ idxData = 8
  /\ Len(hist) = 10

\* C33: whatever uint8_t NumData the registration calls were given, the
\* length stored in every registered slot of the table is at most 8
C33_DeclaredLength ==
  \A i \in 0..(NumSlots - 1) :
    callback[i].fct # nullptr => SlotLen(callback[i]) <= BufLen - 1

\* C34: the state is always one of the eight enumerated values, so the
\* default branch of the switch is never taken and neither ERROR_STATE nor
\* ERROR_MISC is ever latched
C34_EnumeratedStates ==
  /\ state \in {STATE_OFF, STATE_WAIT_FOR_BREAK, STATE_WAIT_FOR_SYNC,
                STATE_WAIT_FOR_PID, STATE_RECEIVING_DATA, STATE_RECEIVING_ECHO,
                STATE_WAIT_FOR_CHK, STATE_DONE}
  /\ BitAnd(error, ERROR_STATE) = 0
  /\ BitAnd(error, ERROR_MISC) = 0

\* a byte was read in Done, after a frame that latched an error, and
\* nothing of the default branch shows
C34_Witness ==
  /\ state = STATE_DONE
  /\ error # NO_ERROR
  /\ BitAnd(error, ERROR_STATE) = 0
  /\ Len(hist) >= 3
  /\ hist[Len(hist)] # 0
  /\ rxq = <<>>
  /\ ~NullCalled

C36_FieldsOfOneHeader ==
  [][(/\ state = STATE_WAIT_FOR_PID
      /\ flagBreak = FALSE
      /\ rxq # <<>>
      /\ type \in {MASTER_REQUEST, SLAVE_RESPONSE}
      /\ Head(rxq) % 64 # id
      /\ \/ Head(rxq) # RefPID(Head(rxq) % 64)
         \/ callback[Head(rxq) % 64].fct = nullptr
      /\ HandlerStep)
     => ~(\A f \in FrameRead' : /\ f[1] = type
                                /\ f[2] = Head(rxq) % 64
                                /\ f[3] = numData)]_vars

\* C37: with LIN_Slave_SoftwareSerial the state is never ReceivingEcho when
\* handler() has returned, the invocation that transmits a slave response
\* ends in Done with the transmitter disabled, and ERROR_ECHO is never
\* latched
C37_EchoSkipped ==
  hal \in {SoftwareSerial, SoftwareSerial_ESP} =>
    /\ state # STATE_RECEIVING_ECHO
    /\ BitAnd(error, ERROR_ECHO) = 0
    /\ sent # <<>> => (/\ state = STATE_DONE
                       /\ txEN = FALSE
                       /\ Len(hist) = 2)

\* a slave response was written with the transmitter enabled by the
\* handler() call that read the PID, which ended in Done
C37_Witness ==
  /\ hal = SoftwareSerial
  /\ Len(sent) = 1
  /\ sent[1].txEN = TRUE
  /\ Len(sent[1].bytes) >= 2
  /\ Len(calls) = 1
  /\ hist = <<85, 80>>
  /\ state = STATE_DONE
  /\ txEN = FALSE
  /\ error = NO_ERROR

\* C38: for every ID in 0..63 _calculatePID(_calculatePID(ID)) is
\* _calculatePID(ID), and a registration call given the protected ID leaves
\* the callback table as the call given the unprotected ID does
C38_ProtectedOrUnprotected ==
  [][(fnArg' # fnArg)
       => LET a   == fnArg'
              i   == a.ID % 64
          IN  /\ _calculatePID(_calculatePID(i)) = _calculatePID(i)
              /\ _calculatePID(i) % 64 = i
              /\ callback' = Registered(callback, a.kind, i, a.Fct, a.NumData)
              /\ callback' = Registered(callback, a.kind, _calculatePID(i),
                                        a.Fct, a.NumData)]_vars

\* a slave response was registered under the protected ID 0x7D, in the
\* slot of ID 0x3D
C38_Witness ==
  /\ fnArg # NoRes
  /\ fnArg.ID = 125
  /\ fnArg.ID = _calculatePID(61)
  /\ fnArg.kind = SLAVE_RESPONSE
  /\ fnArg.Fct # nullptr
  /\ callback[61] = [type_numData |-> SLAVE_RESPONSE + fnArg.NumData,
                     fct |-> fnArg.Fct]

====
